---- MODULE Spec2Model ----
(***************************************************************************)
(* Model of hoyo-checkin-rs (src/src/main.rs): the daily check-in run.     *)
(* main loads config.json, then for every account and every game runs      *)
(* process_game (status-check, claim, reverify), folds the booleans into   *)
(* one success flag and optionally pings a health-check URL.               *)
(*                                                                         *)
(* The remote service is the environment: every request is answered by a  *)
(* nondeterministically chosen response or transport failure.              *)
(***************************************************************************)
EXTENDS Integers, Sequences, FiniteSets, TLC

VARIABLES
    cfgFile,      \* what fs::read_to_string / serde_json::from_str find
    config,       \* Config {accounts, healthcheck}
    pc,           \* position of the single thread of main
    panicMsg,     \* message of the panic that ended the run ("" if none)
    success,      \* main's `success`
    ai,           \* index of the account main's loop is at
    psuccess,     \* process's `success`
    gi,           \* index of the game process's loop is at
    st1,          \* result of the first get_status of the current pair
    sg,           \* result of sign for the current pair
    st2,          \* result of the second get_status of the current pair
    reqs,         \* requests issued for the current pair, in order
    codes,        \* transport outcome and return code each of them came back with
    lastReply,    \* what the latest of them came back with
    lines,        \* console lines printed for the current pair
    ret,          \* value returned by the last process_game call
    invoked,      \* account x game pairs process_game was called for
    gameResults,  \* process_game results of the current account
    acctResults,  \* process results of the accounts finished so far
    anyFalse,     \* some process_game call returned false
    allClaimed,   \* every finished pair was AlreadyClaimed or ClaimedNow
    hcReqs,       \* URLs of the health-check GETs issued
    hcOutcomes    \* how each of them ended: "sent" or "failed"

vars == <<cfgFile, config, pc, panicMsg, success, ai, psuccess, gi, st1, sg,
          st2, reqs, codes, lastReply, lines, ret, invoked, gameResults, acctResults, anyFalse,
          allClaimed, hcReqs, hcOutcomes>>

(***************************************************************************)
(* Bounds of the model.                                                    *)
(***************************************************************************)
MaxAccounts == 2

(***************************************************************************)
(* Option<T>.                                                              *)
(***************************************************************************)
Some(x) == [some |-> TRUE, v |-> x]

NoneInt == [some |-> FALSE, v |-> 0]

NoneBool == [some |-> FALSE, v |-> FALSE]

NoneStr == [some |-> FALSE, v |-> ""]

NoneBytes == [some |-> FALSE, v |-> <<>>]

unwrap_or(o, d) == IF o.some THEN o.v ELSE d

(***************************************************************************)
(* The game registry: name and the optional x-rpc-signgame value (bytes).  *)
(***************************************************************************)
GAMES ==
    << [name |-> "Genshin Impact", rpc_sign_game |-> NoneBytes],
       [name |-> "Honkai Star Rail", rpc_sign_game |-> NoneBytes],
       [name |-> "Zenless Zone Zero", rpc_sign_game |-> Some(<<122, 122, 122>>)] >>

(***************************************************************************)
(* Accounts.  A cookie map is given as the sequence of (key, value) pairs  *)
(* in the order the HashMap iterates them; keys and values are byte        *)
(* strings.  97 = 'a', 98 = 'b', 10 = line feed.                           *)
(***************************************************************************)
CookieJars ==
    { <<>>,
      << <<(<<97>>), (<<98>>)>>, <<(<<98>>), (<<97>>)>> >>,
      << <<(<<97>>), (<<98, 10>>)>> >>,
      << <<(<<10>>), (<<97>>)>> >> }

HealthcheckBase == <<"https://hc.example/ping">>

Accounts == [name : {"A"}, cookies : CookieJars]

AccountLists == UNION { [1..n -> Accounts] : n \in 0..MaxAccounts }

Configs == [accounts : AccountLists, healthcheck : {NoneBytes, Some(HealthcheckBase)}]

NoConfig == [accounts |-> <<>>, healthcheck |-> NoneBytes]

(***************************************************************************)
(* Result<T, String>.  An error text is the response's message, the        *)
(* synthesized "Return code is N", or the transport error's text.          *)
(***************************************************************************)
NoErr == [kind |-> "none", text |-> "", code |-> 0]

Ok(v) == [tag |-> "Ok", val |-> v, err |-> NoErr]

Err(e) == [tag |-> "Err", val |-> FALSE, err |-> e]

NoResult == [tag |-> "none", val |-> FALSE, err |-> NoErr]

TransportText(t) == [kind |-> "transport", text |-> t, code |-> 0]

MessageText(m) == [kind |-> "message", text |-> m, code |-> 0]

ReturnCodeText(n) == [kind |-> "retcode", text |-> "Return code is ", code |-> n]

(***************************************************************************)
(* What the HTTP capability can hand back for one request: a failure to    *)
(* send, a body that does not decode as SignResponse, or a SignResponse.   *)
(***************************************************************************)
RetCodes == {NoneInt, Some(0), Some(-5003), Some(10001)}

Messages == {NoneStr, Some("Invalid cookie")}

SignDatas == {[some |-> FALSE, is_sign |-> NoneBool],
              [some |-> TRUE, is_sign |-> NoneBool],
              [some |-> TRUE, is_sign |-> Some(TRUE)],
              [some |-> TRUE, is_sign |-> Some(FALSE)]}

NoData == [some |-> FALSE, is_sign |-> NoneBool]

NoReply == [transport |-> "none", retcode |-> NoneInt, message |-> NoneStr,
            data |-> NoData]

Replies ==
    [transport : {"ok"}, retcode : RetCodes, message : Messages, data : SignDatas]
    \cup [transport : {"send failed", "decode failed"}, retcode : {NoneInt},
          message : {NoneStr}, data : {NoData}]

(***************************************************************************)
(* build_headers.  The static headers are legal text; the x-rpc-signgame   *)
(* value and the Cookie value go through HeaderValue::from_str, which      *)
(* rejects every byte below 32 other than tab, and byte 127, and the code  *)
(* unwraps both with expect.                                               *)
(***************************************************************************)
IsValidHeaderByte(b) == (b >= 32 /\ b # 127) \/ b = 9

HeaderValueFromStr(bytes) == \A i \in 1..Len(bytes) : IsValidHeaderByte(bytes[i])

RECURSIVE Join(_, _)
Join(parts, sep) ==
    IF Len(parts) = 0 THEN <<>>
    ELSE IF Len(parts) = 1 THEN parts[1]
    ELSE parts[1] \o sep \o Join(Tail(parts), sep)

\* cookies.iter().map(|(k, v)| format!("{}={}", k, v)).collect().join("; ")
CookieHeader(cookies) ==
    Join([i \in 1..Len(cookies) |-> cookies[i][1] \o <<61>> \o cookies[i][2]],
         <<59, 32>>)

\* "" when the header map is built, otherwise the message of the panic
build_headers(account, game) ==
    IF game.rpc_sign_game.some /\ ~HeaderValueFromStr(game.rpc_sign_game.v)
    THEN "Failed to build x-rpc-signgame header"
    ELSE IF ~HeaderValueFromStr(CookieHeader(account.cookies))
    THEN "Failed to build cookie header"
    ELSE ""

(***************************************************************************)
(* get_status and sign, as functions of what the request came back with.   *)
(***************************************************************************)
\* get_status that takes a missing retcode for an error
get_status_RequiresReturnCode(reply) ==
    IF reply.transport # "ok" THEN Err(TransportText(reply.transport))
    ELSE LET return_code == unwrap_or(reply.retcode, -1)
         IN IF return_code # 0
            THEN Err(IF reply.message.some THEN MessageText(reply.message.v)
                     ELSE ReturnCodeText(return_code))
            ELSE Ok(IF reply.data.some THEN unwrap_or(reply.data.is_sign, FALSE)
                    ELSE FALSE)

\* get_status that takes -5003 for "already signed", as sign does
get_status_HonoursSentinel(reply) ==
    IF reply.transport # "ok" THEN Err(TransportText(reply.transport))
    ELSE LET return_code == unwrap_or(reply.retcode, 0)
         IN IF return_code = -5003 THEN Ok(TRUE)
            ELSE IF return_code # 0
            THEN Err(IF reply.message.some THEN MessageText(reply.message.v)
                     ELSE ReturnCodeText(return_code))
            ELSE Ok(IF reply.data.some THEN unwrap_or(reply.data.is_sign, FALSE)
                    ELSE FALSE)

\* get_status that never looks at the return code
get_status_IgnoresReturnCode(reply) ==
    IF reply.transport # "ok" THEN Err(TransportText(reply.transport))
    ELSE Ok(IF reply.data.some THEN unwrap_or(reply.data.is_sign, FALSE) ELSE FALSE)

get_status(reply) ==
    IF reply.transport # "ok" THEN Err(TransportText(reply.transport))
    ELSE LET return_code == unwrap_or(reply.retcode, 0)
         IN IF return_code # 0
            THEN Err(IF reply.message.some THEN MessageText(reply.message.v)
                     ELSE ReturnCodeText(return_code))
            ELSE Ok(IF reply.data.some THEN unwrap_or(reply.data.is_sign, FALSE)
                    ELSE FALSE)

\* sign that reports every error by its return code
sign_DropsMessage(reply) ==
    IF reply.transport # "ok" THEN Err(TransportText(reply.transport))
    ELSE LET return_code == unwrap_or(reply.retcode, 0)
         IN IF return_code = -5003 THEN Ok(TRUE)
            ELSE IF return_code # 0 THEN Err(ReturnCodeText(return_code))
            ELSE Ok(TRUE)

\* sign without the -5003 case
sign_NoSentinel(reply) ==
    IF reply.transport # "ok" THEN Err(TransportText(reply.transport))
    ELSE LET return_code == unwrap_or(reply.retcode, 0)
         IN IF return_code # 0
            THEN Err(IF reply.message.some THEN MessageText(reply.message.v)
                     ELSE ReturnCodeText(return_code))
            ELSE Ok(TRUE)

sign(reply) ==
    IF reply.transport # "ok" THEN Err(TransportText(reply.transport))
    ELSE LET return_code == unwrap_or(reply.retcode, 0)
         IN IF return_code = -5003 THEN Ok(TRUE)
            ELSE IF return_code # 0
            THEN Err(IF reply.message.some THEN MessageText(reply.message.v)
                     ELSE ReturnCodeText(return_code))
            ELSE Ok(TRUE)

(***************************************************************************)
(* process_game: what each of its three match points decides.  `next` is   *)
(* the call it goes on to, or "return" with the line printed and the       *)
(* value returned.                                                         *)
(***************************************************************************)
Line(tmpl, account, game, e) ==
    [tmpl |-> tmpl, account |-> account.name, game |-> game.name, err |-> e]

NoLine == [tmpl |-> "", account |-> "", game |-> "", err |-> NoErr]

Goto(next) == [next |-> next, line |-> NoLine, value |-> FALSE]

Return(line, value) == [next |-> "return", line |-> line, value |-> value]

\* process_game that asks for the status again when the first call fails
AfterFirstStatus_Retries(account, game, r) ==
    IF r.tag = "Ok" /\ ~r.val THEN Goto("sign")
    ELSE IF r.tag = "Ok"
    THEN Return(Line("Daily check-in already done for {} on {}!", account, game, NoErr),
                FALSE)
    ELSE IF r.err.kind = "transport" THEN Goto("get_status")
    ELSE Return(Line("Failed check-in for {} on {}: {}", account, game, r.err), FALSE)

\* match self.get_status(game) { Ok(false) => .., Ok(true) => .., Err(e) => .. }; false
AfterFirstStatus(account, game, r) ==
    IF r.tag = "Ok" /\ ~r.val THEN Goto("sign")
    ELSE IF r.tag = "Ok"
    THEN Return(Line("Daily check-in already done for {} on {}!", account, game, NoErr),
                FALSE)
    ELSE Return(Line("Failed check-in for {} on {}: {}", account, game, r.err), FALSE)

\* process_game that reverifies whatever sign returned
AfterSign_IgnoresError(account, game, r) == Goto("reverify")

\* if let Err(e) = self.sign(game) { println!(..); return false; }
AfterSign(account, game, r) ==
    IF r.tag = "Err"
    THEN Return(Line("Failed to sign in for {} on {}: {}", account, game, r.err), FALSE)
    ELSE Goto("reverify")

\* process_game whose reverify never reports success
AfterReverify_NeverSuccess(account, game, r) ==
    Return(Line("ERROR: Unable to claim check-in rewards for {} on {}",
                account, game, NoErr), FALSE)

\* process_game that trusts the claim whatever the reverify says
AfterReverify_TrustsClaim(account, game, r) ==
    Return(Line("Daily check-in successful for {} on {}!", account, game, NoErr), TRUE)

\* if let Ok(true) = self.get_status(game) { println!(..); return true; } println!(..); false
AfterReverify(account, game, r) ==
    IF r.tag = "Ok" /\ r.val
    THEN Return(Line("Daily check-in successful for {} on {}!", account, game, NoErr),
                TRUE)
    ELSE Return(Line("ERROR: Unable to claim check-in rewards for {} on {}",
                     account, game, NoErr), FALSE)

(***************************************************************************)
(* CheckinOutcome of a finished pair, from the results of its calls.       *)
(***************************************************************************)
Outcome(s1, s, s2) ==
    IF s1.tag = "Ok" /\ s1.val THEN "AlreadyClaimed"
    ELSE IF s1.tag = "Ok" /\ s.tag = "Ok" /\ s2.tag = "Ok" /\ s2.val THEN "ClaimedNow"
    ELSE "Failed"

\* if !self.process_game(game) { success = false; }
FoldGame(acc, result) == IF ~result THEN FALSE ELSE acc

\* main that keeps only the latest account's result
FoldAccount_LastWins(acc, result) == result

\* if !checkin.process() { success = false; }
FoldAccount(acc, result) == IF ~result THEN FALSE ELSE acc

\* a main whose test of the flag is the wrong way round
HealthcheckUrl_Inverted(healthcheck, ok) ==
    IF ok THEN healthcheck \o <<"/fail">> ELSE healthcheck

\* let url = if !success { format!("{}/fail", healthcheck) } else { healthcheck.to_string() }
HealthcheckUrl(healthcheck, ok) ==
    IF ~ok THEN healthcheck \o <<"/fail">> ELSE healthcheck

(***************************************************************************)
(* The state machine.                                                      *)
(***************************************************************************)
Init ==
    /\ cfgFile \in {"missing", "invalid", "ok"}
    /\ config \in (IF cfgFile = "ok" THEN Configs ELSE {NoConfig})
    /\ pc = "main"
    /\ panicMsg = ""
    /\ success = TRUE
    /\ ai = 1
    /\ psuccess = TRUE
    /\ gi = 1
    /\ st1 = NoResult
    /\ sg = NoResult
    /\ st2 = NoResult
    /\ reqs = <<>>
    /\ codes = <<>>
    /\ lastReply = NoReply
    /\ lines = <<>>
    /\ ret = NoneBool
    /\ invoked = <<>>
    /\ gameResults = <<>>
    /\ acctResults = <<>>
    /\ anyFalse = FALSE
    /\ allClaimed = TRUE
    /\ hcReqs = <<>>
    /\ hcOutcomes = <<>>

\* an expect() that fails: the thread unwinds and the process ends
Panic(msg) ==
    /\ pc' = "panicked"
    /\ panicMsg' = msg

\* a main that carries on with an empty Config when config.json is unusable
LoadConfig_DefaultsOnError ==
    /\ pc = "main"
    /\ pc' = "accounts"
    /\ panicMsg' = panicMsg
    /\ success' = TRUE
    /\ UNCHANGED <<cfgFile, config, ai, psuccess, gi, st1, sg, st2, reqs, codes,
                   lastReply, lines, ret, invoked, gameResults, acctResults,
                   anyFalse, allClaimed, hcReqs, hcOutcomes>>

\* main, up to the loop: read and parse config.json, success = true
LoadConfig ==
    /\ pc = "main"
    /\ IF cfgFile = "missing" THEN Panic("Failed to read config.json")
       ELSE IF cfgFile = "invalid" THEN Panic("Invalid JSON")
       ELSE /\ pc' = "accounts"
            /\ panicMsg' = panicMsg
    /\ success' = TRUE
    /\ UNCHANGED <<cfgFile, config, ai, psuccess, gi, st1, sg, st2, reqs, codes,
                   lastReply, lines, ret, invoked, gameResults, acctResults, anyFalse, allClaimed,
                   hcReqs, hcOutcomes>>

\* main's for loop: the next account enters process, or the loop is over
NextAccount ==
    /\ pc = "accounts"
    /\ IF ai <= Len(config.accounts)
       THEN /\ psuccess' = TRUE
            /\ gi' = 1
            /\ gameResults' = <<>>
            /\ pc' = "games"
       ELSE /\ pc' = "healthcheck"
            /\ UNCHANGED <<psuccess, gi, gameResults>>
    /\ UNCHANGED <<cfgFile, config, panicMsg, success, ai, st1, sg, st2, reqs,
                   codes, lastReply, lines, ret, invoked, acctResults, anyFalse, allClaimed, hcReqs, hcOutcomes>>

\* process's for loop: the next game enters process_game, or process
\* returns its flag and main folds it into its own; either way the locals of
\* the process_game call before it are gone
NextGame ==
    /\ pc = "games"
    /\ IF gi <= Len(GAMES)
       THEN /\ invoked' = Append(invoked, <<ai, gi>>)
            /\ pc' = "get_status"
            /\ UNCHANGED <<success, ai, acctResults>>
       ELSE /\ acctResults' = Append(acctResults, psuccess)
            /\ success' = FoldAccount(success, psuccess)
            /\ ai' = ai + 1
            /\ pc' = "accounts"
            /\ UNCHANGED invoked
    /\ st1' = NoResult
    /\ sg' = NoResult
    /\ st2' = NoResult
    /\ reqs' = <<>>
    /\ codes' = <<>>
    /\ lastReply' = NoReply
    /\ lines' = <<>>
    /\ ret' = NoneBool
    /\ UNCHANGED <<cfgFile, config, panicMsg, psuccess, gi, gameResults, anyFalse,
                   allClaimed, hcReqs, hcOutcomes>>

\* what one match point of process_game does with its decision d; s1, s, s2
\* are the results of the pair's calls so far
Decide(d, s1, s, s2) ==
    /\ st1' = s1
    /\ sg' = s
    /\ st2' = s2
    /\ panicMsg' = panicMsg
    /\ IF d.next = "return"
       THEN /\ lines' = Append(lines, d.line)
            /\ ret' = Some(d.value)
            /\ psuccess' = FoldGame(psuccess, d.value)
            /\ gameResults' = Append(gameResults, d.value)
            /\ anyFalse' = (anyFalse \/ ~d.value)
            /\ allClaimed' = (allClaimed /\ Outcome(s1, s, s2) # "Failed")
            /\ gi' = gi + 1
            /\ pc' = "games"
       ELSE /\ pc' = d.next
            /\ UNCHANGED <<lines, ret, psuccess, gameResults, anyFalse, allClaimed, gi>>

\* one request sent and answered
Issue(kind, reply) ==
    /\ reqs' = Append(reqs, kind)
    /\ codes' = Append(codes, [transport |-> reply.transport, retcode |-> reply.retcode])
    /\ lastReply' = reply

\* a panic inside one of process_game's calls
PanicInGame(msg) ==
    /\ Panic(msg)
    /\ UNCHANGED <<st1, sg, st2, reqs, codes, lastReply, lines, ret, psuccess, gameResults, anyFalse,
                   allClaimed, gi>>

\* process_game's first get_status and the match on its result
StatusCheck ==
    /\ pc = "get_status"
    /\ LET account == config.accounts[ai]
           game == GAMES[gi]
           p == build_headers(account, game)
       IN IF p # "" THEN PanicInGame(p)
          ELSE \E reply \in Replies :
                 LET r == get_status(reply)
                 IN /\ Issue("status-check", reply)
                    /\ Decide(AfterFirstStatus(account, game, r), r, sg, st2)
    /\ UNCHANGED <<cfgFile, config, success, ai, invoked, acctResults, hcReqs, hcOutcomes>>

\* process_game's sign and the test of its result
Claim ==
    /\ pc = "sign"
    /\ LET account == config.accounts[ai]
           game == GAMES[gi]
           p == build_headers(account, game)
       IN IF p # "" THEN PanicInGame(p)
          ELSE \E reply \in Replies :
                 LET r == sign(reply)
                 IN /\ Issue("claim", reply)
                    /\ Decide(AfterSign(account, game, r), st1, r, st2)
    /\ UNCHANGED <<cfgFile, config, success, ai, invoked, acctResults, hcReqs, hcOutcomes>>

\* process_game's second get_status and the test of its result
Reverify ==
    /\ pc = "reverify"
    /\ LET account == config.accounts[ai]
           game == GAMES[gi]
           p == build_headers(account, game)
       IN IF p # "" THEN PanicInGame(p)
          ELSE \E reply \in Replies :
                 LET r == get_status(reply)
                 IN /\ Issue("status-check", reply)
                    /\ Decide(AfterReverify(account, game, r), st1, sg, r)
    /\ UNCHANGED <<cfgFile, config, success, ai, invoked, acctResults, hcReqs, hcOutcomes>>

\* a main that unwraps the health-check's result
AfterHealthcheck_Unwraps(outcome) == IF outcome = "sent" THEN "done" ELSE "panicked"

\* let _ = client.get(&url).send(); and main returns
AfterHealthcheck(outcome) == "done"

\* main after the loop: the optional health-check GET, its outcome dropped
Healthcheck ==
    /\ pc = "healthcheck"
    /\ IF config.healthcheck.some
       THEN \E outcome \in {"sent", "failed"} :
              /\ hcReqs' = Append(hcReqs, HealthcheckUrl(config.healthcheck.v, success))
              /\ hcOutcomes' = Append(hcOutcomes, outcome)
              /\ pc' = AfterHealthcheck(outcome)
       ELSE /\ hcReqs' = hcReqs
            /\ hcOutcomes' = hcOutcomes
            /\ pc' = "done"
    /\ UNCHANGED <<cfgFile, config, panicMsg, success, ai, psuccess, gi, st1, sg,
                   st2, reqs, codes, lastReply, lines, ret, invoked, gameResults,
                   acctResults, anyFalse, allClaimed>>

Next ==
    \/ LoadConfig
    \/ NextAccount
    \/ NextGame
    \/ StatusCheck
    \/ Claim
    \/ Reverify
    \/ Healthcheck

Spec == Init /\ [][Next]_vars

\* the single thread keeps running: every call it makes returns
FairSpec == Spec /\ WF_vars(Next)

(***************************************************************************)
(* Vocabulary of the properties.                                           *)
(***************************************************************************)
Returned == ret.some

NStatus == Cardinality({i \in 1..Len(reqs) : reqs[i] = "status-check"})

NClaim == Cardinality({i \in 1..Len(reqs) : reqs[i] = "claim"})

\* the pair process_game has just returned for
DoneAccount == config.accounts[ai]

DoneGame == GAMES[gi - 1]

AllTrue(bs) == \A i \in 1..Len(bs) : bs[i]

IterationOver == pc \in {"healthcheck", "done"}

RunEnded == cfgFile = "ok" /\ pc \in {"done", "panicked"}

\* every account x game pair, account-major, game-minor
AllPairs ==
    LET nG == Len(GAMES)
    IN [k \in 1..(Len(config.accounts) * nG) |->
          <<((k - 1) \div nG) + 1, ((k - 1) % nG) + 1>>]

\* the reply to request i of the pair signals an error by transport or code
FailedReply(i) ==
    codes[i].transport # "ok" \/ unwrap_or(codes[i].retcode, 0) # 0

(***************************************************************************)
(* C1: when the first status-check of a pair reports already signed,       *)
(* process_game returns true, having issued one status-check and no claim. *)
(***************************************************************************)
C1_AlreadySignedReturnsTrue ==
    (Returned /\ st1 = Ok(TRUE)) => (ret.v /\ NClaim = 0 /\ NStatus = 1)

(***************************************************************************)
(* C2: when the first status-check reports not signed, the claim succeeds  *)
(* and the reverify reports signed, process_game returns true after        *)
(* exactly the requests status-check, claim, status-check, in this order.  *)
(***************************************************************************)
C2_ClaimedNowReturnsTrue ==
    (Returned /\ st1 = Ok(FALSE) /\ sg.tag = "Ok" /\ st2 = Ok(TRUE))
        => (ret.v /\ reqs = <<"status-check", "claim", "status-check">>)

C2_Witness ==
    /\ Returned /\ st1 = Ok(FALSE) /\ sg.tag = "Ok" /\ st2 = Ok(TRUE)
    /\ codes[2].retcode = Some(0)
    /\ ret.v

(***************************************************************************)
(* C3: a claim answered with return code -5003 is a successful claim: no   *)
(* claim error is printed, process_game goes on to the reverify, and the   *)
(* value it returns is true exactly when the reverify reports signed.      *)
(***************************************************************************)
C3_SentinelIsClaimSuccess ==
    (Len(codes) >= 2 /\ reqs[2] = "claim" /\ codes[2].transport = "ok"
       /\ codes[2].retcode = Some(-5003))
        => /\ sg = Ok(TRUE)
           /\ \A i \in 1..Len(lines) :
                lines[i].tmpl # "Failed to sign in for {} on {}: {}"
           /\ \/ pc = "reverify" /\ ~Returned /\ lines = <<>>
              \/ /\ Returned
                 /\ reqs = <<"status-check", "claim", "status-check">>
                 /\ ret.v = (st2 = Ok(TRUE))

C3_Witness ==
    /\ Len(codes) = 3 /\ codes[2].transport = "ok" /\ codes[2].retcode = Some(-5003)
    /\ Returned /\ st2 = Ok(TRUE) /\ ret.v

(***************************************************************************)
(* C4: when the claim succeeds and the reverify reports not signed or      *)
(* fails, process_game returns false, prints only the "Unable to claim"    *)
(* line, and has issued one claim and two status-checks.                   *)
(***************************************************************************)
C4_ReverifyFailureReturnsFalse ==
    (Returned /\ sg.tag = "Ok" /\ st2 # Ok(TRUE))
        => /\ ~ret.v
           /\ lines = << Line("ERROR: Unable to claim check-in rewards for {} on {}",
                              DoneAccount, DoneGame, NoErr) >>
           /\ reqs = <<"status-check", "claim", "status-check">>

C4_Witness ==
    /\ Returned /\ sg.tag = "Ok" /\ st2 = Ok(FALSE)
    /\ codes[3].transport = "ok"
    /\ ~ret.v

(***************************************************************************)
(* C5: when the first status-check fails, by transport or decoding or by   *)
(* a nonzero return code, process_game returns false at once with the      *)
(* "Failed check-in" line carrying the error; no further request is made.  *)
(***************************************************************************)
C5_FirstStatusFailureReturnsFalse ==
    (Len(codes) >= 1 /\ FailedReply(1))
        => /\ Returned /\ ~ret.v
           /\ st1.tag = "Err"
           /\ reqs = <<"status-check">>
           /\ lines = << Line("Failed check-in for {} on {}: {}",
                              DoneAccount, DoneGame, st1.err) >>

C5_Witness ==
    /\ Len(codes) = 1 /\ codes[1].retcode = Some(10001)
    /\ Returned /\ ~ret.v

(***************************************************************************)
(* C6: once the loop of main is over, its success flag is false exactly    *)
(* when some process_game call returned false; the flag of process is the  *)
(* conjunction of its games' results and the flag of main the conjunction  *)
(* of the accounts' results.                                               *)
(***************************************************************************)
C6_FlagsAreConjunctions ==
    /\ IterationOver => ((success = FALSE) <=> anyFalse)
    /\ (pc = "accounts" \/ IterationOver) => (success = AllTrue(acctResults))
    /\ ((pc = "accounts" \/ IterationOver) /\ Len(acctResults) > 0)
         => /\ Len(gameResults) = Len(GAMES)
            /\ acctResults[Len(acctResults)] = AllTrue(gameResults)

C6_Witness ==
    /\ pc = "done"
    /\ Len(acctResults) = 2 /\ ~acctResults[1] /\ acctResults[2]
    /\ ~success

(***************************************************************************)
(* C7: in every run process_game is called exactly once for every account  *)
(* x game pair, accounts in config order and games in registry order.      *)
(***************************************************************************)
C7_EveryPairAttempted == RunEnded => (invoked = AllPairs)

(***************************************************************************)
(* C8: a run with a health-check URL issues exactly one health-check GET,  *)
(* to the base URL when the overall result is true and to base/fail when   *)
(* it is false; a run without one issues none.                             *)
(***************************************************************************)
C8_HealthcheckOncePerRun ==
    RunEnded =>
        IF config.healthcheck.some
        THEN hcReqs = << IF success THEN config.healthcheck.v
                         ELSE config.healthcheck.v \o <<"/fail">> >>
        ELSE hcReqs = <<>>

(***************************************************************************)
(* C9: the overall result is true exactly when every pair ended            *)
(* AlreadyClaimed or ClaimedNow.                                           *)
(***************************************************************************)
C9_OverallIffAllClaimed == IterationOver => (success <=> allClaimed)

(***************************************************************************)
(* C10: no error of a pair escapes process_game as a panic, whatever the   *)
(* account's cookies and whatever the requests come back with.             *)
(***************************************************************************)
C10_NoPanicInProcessGame == cfgFile = "ok" => pc # "panicked"

(***************************************************************************)
(* C11: a health-check GET is issued only once every account x game pair   *)
(* has been processed; whether it is sent or fails, the success flag is    *)
(* what the loop left, the run ends normally, and the GET is not repeated. *)
(***************************************************************************)
C11_HealthcheckLastAndIgnored ==
    hcReqs # <<>> =>
        /\ invoked = AllPairs
        /\ Len(acctResults) = Len(config.accounts)
        /\ Len(hcReqs) = 1 /\ Len(hcOutcomes) = 1
        /\ pc = "done" /\ panicMsg = ""
        /\ success = AllTrue(acctResults)

C11_Witness ==
    /\ pc = "done" /\ hcOutcomes = <<"failed">>
    /\ Len(config.accounts) = 2 /\ success

(***************************************************************************)
(* C12: every process_game call prints exactly one line, and the line is a *)
(* success line ("already done", "successful") exactly when the call       *)
(* returns true, a failure line exactly when it returns false.             *)
(***************************************************************************)
SuccessLines == {"Daily check-in already done for {} on {}!",
                 "Daily check-in successful for {} on {}!"}

FailureLines == {"Failed check-in for {} on {}: {}",
                 "Failed to sign in for {} on {}: {}",
                 "ERROR: Unable to claim check-in rewards for {} on {}"}

C12_OneLineMatchingResult ==
    Returned =>
        /\ Len(lines) = 1
        /\ lines[1].tmpl \in SuccessLines \cup FailureLines
        /\ ret.v <=> (lines[1].tmpl \in SuccessLines)

(***************************************************************************)
(* C13: when the first status-check reports not signed and the claim       *)
(* fails, by transport or decoding or by a return code other than 0 and    *)
(* -5003, process_game returns false with the "Failed to sign in" line     *)
(* carrying the error, after one status-check and one claim.               *)
(***************************************************************************)
C13_ClaimFailureReturnsFalse ==
    (Len(codes) >= 2 /\ reqs[2] = "claim"
       /\ (codes[2].transport # "ok" \/ unwrap_or(codes[2].retcode, 0) \notin {0, -5003}))
        => /\ Returned /\ ~ret.v
           /\ st1 = Ok(FALSE) /\ sg.tag = "Err" /\ st2 = NoResult
           /\ reqs = <<"status-check", "claim">>
           /\ NStatus = 1 /\ NClaim = 1
           /\ lines = << Line("Failed to sign in for {} on {}: {}",
                              DoneAccount, DoneGame, sg.err) >>

C13_Witness ==
    /\ Len(codes) = 2 /\ codes[2].transport = "send failed"
    /\ Returned /\ ~ret.v /\ sg.tag = "Err"

(***************************************************************************)
(* C14: the requests issued for a pair are a non-empty prefix of           *)
(* status-check, claim, status-check: at most two status-checks and one    *)
(* claim, a claim only directly after a status-check that reported not     *)
(* signed, and nothing sent again after a transport failure.               *)
(***************************************************************************)
Protocol == <<"status-check", "claim", "status-check">>

IsProtocolPrefix(rs) == Len(rs) <= Len(Protocol) /\ \A i \in 1..Len(rs) : rs[i] = Protocol[i]

\* process_game has had its first call answered for the pair
PairUnderWay == Returned \/ pc \in {"sign", "reverify"}

LastCall == Len(reqs)

LastResult == IF LastCall = 1 THEN st1 ELSE IF LastCall = 2 THEN sg ELSE st2

LastIsStatusCheck == LastCall \in {1, 3}

LastIsClaim == LastCall = 2

WellFormed == lastReply.transport = "ok"

NotSignedData == ~lastReply.data.some \/ ~lastReply.data.is_sign.some

(***************************************************************************)
(* C15: a well-formed status-check response without retcode counts as      *)
(* return code 0, and without data or data.is_sign as not signed; on the   *)
(* first status-check such a response is no error and process_game goes    *)
(* on to the claim.                                                        *)
(***************************************************************************)
C15_DecoderDefaults ==
    (LastIsStatusCheck /\ WellFormed) =>
        /\ ~lastReply.retcode.some =>
             LastResult = Ok(lastReply.data.some /\ lastReply.data.is_sign.some
                             /\ lastReply.data.is_sign.v)
        /\ (unwrap_or(lastReply.retcode, 0) = 0 /\ NotSignedData) =>
             LastResult = Ok(FALSE)
        /\ (LastCall = 1 /\ ~lastReply.retcode.some /\ NotSignedData) =>
             (pc = "sign" /\ ~Returned /\ lines = <<>>)

C15_Witness ==
    /\ LastCall = 1 /\ WellFormed
    /\ ~lastReply.retcode.some /\ ~lastReply.message.some /\ ~lastReply.data.some
    /\ pc = "sign"

(***************************************************************************)
(* C16: in get_status and in sign alike, the error of a well-formed        *)
(* response with an error code is its message when it has one and          *)
(* "Return code is N" otherwise; a transport or decoding failure gives the *)
(* transport error's text.                                                 *)
(***************************************************************************)
ErrorCode ==
    /\ unwrap_or(lastReply.retcode, 0) # 0
    /\ ~(LastIsClaim /\ unwrap_or(lastReply.retcode, 0) = -5003)

C16_ErrorReason ==
    LastCall >= 1 =>
        /\ (WellFormed /\ ErrorCode /\ lastReply.message.some) =>
             LastResult = Err(MessageText(lastReply.message.v))
        /\ (WellFormed /\ ErrorCode /\ ~lastReply.message.some) =>
             LastResult = Err(ReturnCodeText(lastReply.retcode.v))
        /\ ~WellFormed =>
             LastResult = Err(TransportText(lastReply.transport))
        /\ LastResult.err.kind = "transport" => ~WellFormed

C16_Witness ==
    /\ LastIsClaim /\ WellFormed
    /\ lastReply.retcode = Some(10001) /\ lastReply.message = Some("Invalid cookie")
    /\ sg = Err(MessageText("Invalid cookie"))

(***************************************************************************)
(* C17: -5003 counts as success on the claim only.  On a status-check it   *)
(* is an error: the first check then returns false without a claim, the    *)
(* reverify returns false with the "Unable to claim" line.  No other       *)
(* nonzero code on the claim is a success.                                 *)
(***************************************************************************)
C17_SentinelOnlyOnClaim ==
    /\ (LastIsStatusCheck /\ WellFormed /\ lastReply.retcode = Some(-5003)) =>
         /\ LastResult.tag = "Err"
         /\ Returned /\ ~ret.v
         /\ LastCall = 1 =>
              /\ reqs = <<"status-check">>
              /\ lines[1].tmpl = "Failed check-in for {} on {}: {}"
         /\ LastCall = 3 =>
              lines = << Line("ERROR: Unable to claim check-in rewards for {} on {}",
                              DoneAccount, DoneGame, NoErr) >>
    /\ (LastIsClaim /\ WellFormed) =>
         (sg.tag = "Ok" <=> unwrap_or(lastReply.retcode, 0) \in {0, -5003})

C17_Witness ==
    /\ LastCall = 3 /\ WellFormed /\ lastReply.retcode = Some(-5003)
    /\ codes[2].retcode = Some(-5003)
    /\ Returned /\ ~ret.v

(***************************************************************************)
(* C18: every run with a config finishes all account x game pairs, each    *)
(* after at most three requests, performs the optional health-check and    *)
(* stops.                                                                  *)
(***************************************************************************)
RunComplete ==
    /\ pc = "done"
    /\ invoked = AllPairs
    /\ Len(hcReqs) = (IF config.healthcheck.some THEN 1 ELSE 0)

C18_RunCompletes == (cfgFile = "ok") ~> RunComplete

(***************************************************************************)
(* C19: when config.json is missing or is not a valid Config, the run      *)
(* aborts before any account is processed: it panics in main and issues    *)
(* no status-check, no claim and no health-check request.                  *)
(***************************************************************************)
C19_ConfigErrorAborts ==
    cfgFile # "ok" =>
        /\ pc \in {"main", "panicked"}
        /\ pc = "panicked" =>
             panicMsg = (IF cfgFile = "missing" THEN "Failed to read config.json"
                         ELSE "Invalid JSON")
        /\ invoked = <<>> /\ reqs = <<>> /\ codes = <<>>
        /\ hcReqs = <<>>
        /\ acctResults = <<>>

C19_Witness ==
    /\ cfgFile = "invalid" /\ pc = "panicked" /\ panicMsg = "Invalid JSON"
    /\ hcReqs = <<>> /\ invoked = <<>>

(***************************************************************************)
(* C20: with an empty account list no status-check and no claim is issued, *)
(* the success flag stays true, and a configured health-check goes to the  *)
(* base URL.                                                               *)
(***************************************************************************)
C20_NoAccounts ==
    (cfgFile = "ok" /\ config.accounts = <<>>) =>
        /\ invoked = <<>> /\ reqs = <<>> /\ codes = <<>>
        /\ success
        /\ hcReqs \in {<<>>, <<config.healthcheck.v>>}
        /\ pc = "done" => Len(hcReqs) = (IF config.healthcheck.some THEN 1 ELSE 0)

C20_Witness ==
    /\ cfgFile = "ok" /\ config.accounts = <<>> /\ config.healthcheck.some
    /\ pc = "done" /\ success
    /\ hcReqs = <<HealthcheckBase>>

====
